---------------------------- MODULE Spec2Model ----------------------------
(***************************************************************************)
(* A model of the cascade blocks of cascad_oc: the characteristic mesh     *)
(* (Rectangle, Discretization, CharacteristicMesh), the hyperbolic block   *)
(* that steps a two-unknown solution over the mesh, and the two lumped     *)
(* blocks (ODEBlock, FunctionBlock) that share the BaseBlock life cycle.   *)
(*                                                                         *)
(* Python floats are modelled by exact rationals <<n, d>> in lowest terms  *)
(* with d > 0.  Every denominator the model reaches is far below 10^10, so *)
(* the tolerance tests abs(a - b) < 1e-10 of the source coincide with      *)
(* equality of the rationals (operator Near).                              *)
(***************************************************************************)
EXTENDS Integers, Sequences, FiniteSets, TLC

(***************************************************************************)
(* Bounds of the model.                                                    *)
(***************************************************************************)
\* the largest target node count m a configuration carries
MaxM == 2
\* the largest number of step calls made on one block
MaxSteps == 2
\* the most connections made to one block
MaxConns == 2

(***************************************************************************)
(* Rational arithmetic standing for the float arithmetic of the source.    *)
(***************************************************************************)
Abs(x) == IF x < 0 THEN -x ELSE x

RECURSIVE GCD(_, _)
GCD(a, b) == IF b = 0 THEN a ELSE GCD(b, a % b)

Norm(n, d) ==
    LET g == GCD(Abs(n), Abs(d))
        sg == IF d < 0 THEN -1 ELSE 1
    IN  << (sg * n) \div g, (sg * d) \div g >>

R(n) == << n, 1 >>
Q(n, d) == Norm(n, d)
\* sums and comparisons go through the least common denominator
Lcd(a, b) == (a[2] \div GCD(a[2], b[2])) * b[2]
Scaled(a, l) == a[1] * (l \div a[2])
RAdd(a, b) == LET l == Lcd(a, b) IN Norm(Scaled(a, l) + Scaled(b, l), l)
RSub(a, b) == LET l == Lcd(a, b) IN Norm(Scaled(a, l) - Scaled(b, l), l)
RMul(a, b) ==
    LET g1 == GCD(Abs(a[1]), b[2])
        g2 == GCD(Abs(b[1]), a[2])
    IN  IF a[1] = 0 \/ b[1] = 0 THEN << 0, 1 >>
        ELSE << (a[1] \div g1) * (b[1] \div g2), (a[2] \div g2) * (b[2] \div g1) >>
RInv(a) == IF a[1] < 0 THEN << -a[2], -a[1] >> ELSE << a[2], a[1] >>
RDiv(a, b) == RMul(a, RInv(b))
RNeg(a) == << -a[1], a[2] >>
RLe(a, b) == LET l == Lcd(a, b) IN Scaled(a, l) <= Scaled(b, l)
RLt(a, b) == LET l == Lcd(a, b) IN Scaled(a, l) < Scaled(b, l)
RMax(a, b) == IF RLe(a, b) THEN b ELSE a
RInt(k, a) == RMul(<< k, 1 >>, a)
\* math.ceil
Ceil(a) == -((-a[1]) \div a[2])
\* abs(a - b) < 1e-10
Near(a, b) == a = b

\* Python's None for a value that is otherwise a record
None == "None"
NoneObj == [none |-> TRUE]

(***************************************************************************)
(* Rectangle (dtype/rectangle.py).                                         *)
(***************************************************************************)
Rectangle(S0, S1, T0, T1) == [S0 |-> S0, S1 |-> S1, T0 |-> T0, T1 |-> T1]

RectCenter(frame) ==
    << RDiv(RAdd(frame.S0, frame.S1), R(2)), RDiv(RAdd(frame.T0, frame.T1), R(2)) >>

\* membership in the open rectangle
ContainsStrict(frame, s, t) ==
    /\ RLt(frame.S0, s) /\ RLt(s, frame.S1)
    /\ RLt(frame.T0, t) /\ RLt(t, frame.T1)

\* Rectangle.contains: the closed rectangle
Contains(frame, s, t) ==
    /\ RLe(frame.S0, s) /\ RLe(s, frame.S1)
    /\ RLe(frame.T0, t) /\ RLe(t, frame.T1)

(***************************************************************************)
(* Discretization (dtype/discretization.py).  A configuration is a record  *)
(* whose field keys is the set of the optional keys ("m", "h") it holds.   *)
(* The result is the Discretization object, or the ValueError raised.      *)
(***************************************************************************)
SetupFromM(config, frame) ==
    LET M == config.m * 2
        ds == RDiv(RSub(frame.S1, frame.S0), R(M))
    IN  [err |-> None, ds |-> ds,
         dt1 |-> RDiv(ds, config.C[1]), dt2 |-> RDiv(ds, config.C[2])]

SetupFromH(config, frame) ==
    LET C1 == config.C[1]
        C2 == config.C[2]
        ds == RDiv(RMul(RMul(config.h, C1), C2), RAdd(C1, C2))
    IN  [err |-> None, ds |-> ds, dt1 |-> RDiv(ds, C1), dt2 |-> RDiv(ds, C2)]

SetupParameters(config, frame) ==
    IF "m" \in config.keys THEN SetupFromM(config, frame)
    ELSE IF "h" \in config.keys THEN SetupFromH(config, frame)
    ELSE [err |-> "ValueError"]

\* a radius taken from the smaller of the two ratios
IndexRadiusMin(a, b) == Ceil(IF RLe(a, b) THEN a ELSE b)

\* math.ceil(max(RS / ds, RT / dt))
IndexRadius(a, b) == Ceil(RMax(a, b))

CalculateIndexRanges(disc, frame) ==
    LET RS == RDiv(RSub(frame.S1, frame.S0), R(2))
        RT == RDiv(RSub(frame.T1, frame.T0), R(2))
        i_r == IndexRadius(RDiv(RS, disc.ds), RDiv(RT, disc.dt1))
        j_r == IndexRadius(RDiv(RS, disc.ds), RDiv(RT, disc.dt2))
    IN  << << -i_r, i_r >>, << -j_r, j_r >> >>

(***************************************************************************)
(* CharacteristicMesh (dtype/characteristic_mesh.py): the frame, the       *)
(* steps, the index ranges and the global node mapping (i, j) -> (s, t).   *)
(***************************************************************************)
CalculateNode(i, j, s0, t0, ds, dt1, dt2) ==
    << RAdd(s0, RInt(i + j, ds)), RAdd(RSub(t0, RInt(i, dt1)), RInt(j, dt2)) >>

NodeKept(frame, node) == Contains(frame, node[1], node[2])

BuildNodes(frame, center, ds, dt1, dt2, i_range, j_range) ==
    LET keys == { p \in (i_range[1] .. i_range[2]) \X (j_range[1] .. j_range[2]) :
                    NodeKept(frame,
                             CalculateNode(p[1], p[2], center[1], center[2], ds, dt1, dt2)) }
    IN  [p \in keys |-> CalculateNode(p[1], p[2], center[1], center[2], ds, dt1, dt2)]

CharacteristicMesh(config) ==
    LET frame == Rectangle(config.S[1], config.S[2], config.T[1], config.T[2])
        center == RectCenter(frame)
        disc == SetupParameters(config, frame)
    IN  IF disc.err # None THEN [none |-> TRUE, err |-> disc.err]
        ELSE LET ranges == CalculateIndexRanges(disc, frame)
             IN  [none |-> FALSE, err |-> None, frame |-> frame, center |-> center,
                  ds |-> disc.ds, dt1 |-> disc.dt1, dt2 |-> disc.dt2,
                  i_range |-> ranges[1], j_range |-> ranges[2],
                  nodes |-> BuildNodes(frame, center, disc.ds, disc.dt1, disc.dt2,
                                       ranges[1], ranges[2])]

\* CharacteristicMesh(self.config) as build_mesh evaluates it: the configuration
\* never changes, so building again yields the mesh the block already holds
BuiltMesh(held, config) == IF held.none THEN CharacteristicMesh(config) ELSE held

\* CharacteristicMesh.get_node: self.nodes.get((i, j))
GetNode(mesh, i, j) ==
    IF << i, j >> \in DOMAIN mesh.nodes
    THEN [none |-> FALSE, s |-> mesh.nodes[<< i, j >>][1], t |-> mesh.nodes[<< i, j >>][2]]
    ELSE NoneObj

GetPrecedingNodes(mesh, i, j) ==
    [left |-> GetNode(mesh, i - 1, j),
     right |-> GetNode(mesh, i, j - 1),
     center |-> GetNode(mesh, i - 1, j - 1)]

(***************************************************************************)
(* The callables a configuration supplies, named by an identifier.         *)
(*   boundary  (t) -> float:    "lin"  t |-> 2t + 1,                       *)
(*                              "zero" the constant 0                      *)
(*   initial   (s) -> float:    "zero" the default lambda s: 0.0,          *)
(*                              "aff"  s |-> s + 1,                        *)
(*                              None   the value None, which is no callable*)
(*   B11..F2   (s, t) -> float: "zero" the default lambda s, t: 0.0,       *)
(*                              "one"  the constant 1                      *)
(*   any of them:               "raiseK" a callable that raises KeyError,  *)
(*                              "raiseZ" one that raises ZeroDivisionError *)
(***************************************************************************)
\* the exception a callable raises when it is called, None when it returns
Raises(f) ==
    CASE f = "raiseK" -> "KeyError"
      [] f = "raiseZ" -> "ZeroDivisionError"
      [] OTHER -> None

Zero == << 0, 1 >>

\* a boundary value that does not depend on the function configured
CallBoundaryLin(f, t) == RAdd(RInt(2, t), R(1))

CallBoundary(f, t) == IF f = "zero" THEN Zero ELSE RAdd(RInt(2, t), R(1))

\* the truth value of a configured callable: a function is true, None is false
Truthy(f) == f # None

\* self.initial_x(s) if callable(self.initial_x) else 0.0
CallInitial(f, s) == IF f = "aff" THEN RAdd(s, R(1)) ELSE Zero

CallCoef(f, s, t) == IF f = "one" THEN R(1) ELSE Zero

(***************************************************************************)
(* HyperbolicBlock (hyperbolic_block.py) over BaseDistributedBlock.        *)
(* A solution dictionary is a function from node indices to pairs <<x, y>>.*)
(***************************************************************************)
SolGet(d, p) == IF p \in DOMAIN d THEN d[p] ELSE << Zero, Zero >>

\* dict insertion order of mesh.nodes: i ascending, then j ascending
DictBefore(p, q) == p[1] < q[1] \/ (p[1] = q[1] /\ p[2] < q[2])

\* the dictionary _initialize_solution fills
InitialValues(mesh, config) ==
    [p \in DOMAIN mesh.nodes |->
        IF Near(mesh.nodes[p][2], mesh.frame.T0)
        THEN << CallInitial(config.initial_x, mesh.nodes[p][1]),
                CallInitial(config.initial_y, mesh.nodes[p][1]) >>
        ELSE << Zero, Zero >>]

\* `if self.mesh and (self.initial_x or self.initial_y)`: self.solution is
\* assigned only past the guard, and is otherwise what it was
InitializeSolution(held, mesh, config) ==
    IF Truthy(config.initial_x) \/ Truthy(config.initial_y)
    THEN [none |-> FALSE, d |-> InitialValues(mesh, config)]
    ELSE held

OnLeftEdgeAt(mesh, p, t) ==
    Near(mesh.nodes[p][1], mesh.frame.S0) /\ Near(mesh.nodes[p][2], t)

OnRightEdgeAt(mesh, p, t) ==
    Near(mesh.nodes[p][1], mesh.frame.S1) /\ Near(mesh.nodes[p][2], t)

ApplyLeft(d, mesh, config, t) ==
    IF config.left_boundary = None THEN d
    ELSE LET hit == { p \in DOMAIN mesh.nodes : OnLeftEdgeAt(mesh, p, t) }
         IN  [p \in DOMAIN d \cup hit |->
                IF p \in hit THEN << SolGet(d, p)[1], CallBoundary(config.left_boundary, t) >>
                ELSE d[p]]

ApplyRight(d, mesh, config, t) ==
    IF config.right_boundary = None THEN d
    ELSE LET hit == { p \in DOMAIN mesh.nodes : OnRightEdgeAt(mesh, p, t) }
         IN  [p \in DOMAIN d \cup hit |->
                IF p \in hit THEN << CallBoundary(config.right_boundary, t), SolGet(d, p)[2] >>
                ELSE d[p]]

\* `if not self.solution: return`, then the left loop, then the right loop
ApplyBoundaryConditions(d, mesh, config, t) ==
    IF DOMAIN d = {} THEN d
    ELSE ApplyRight(ApplyLeft(d, mesh, config, t), mesh, config, t)

\* the exception the left loop raises: self.left_boundary(t) at its first node
ApplyLeftError(mesh, config, t) ==
    IF config.left_boundary # None
       /\ \E p \in DOMAIN mesh.nodes : OnLeftEdgeAt(mesh, p, t)
    THEN Raises(config.left_boundary)
    ELSE None

ApplyRightError(mesh, config, t) ==
    IF config.right_boundary # None
       /\ \E p \in DOMAIN mesh.nodes : OnRightEdgeAt(mesh, p, t)
    THEN Raises(config.right_boundary)
    ELSE None

\* the exception _apply_boundary_conditions raises, and the solution it has
\* written by then: nothing if the left loop raises, the left values if the
\* right loop does
ApplyError(d, mesh, config, t) ==
    IF DOMAIN d = {} THEN None
    ELSE IF ApplyLeftError(mesh, config, t) # None THEN ApplyLeftError(mesh, config, t)
    ELSE ApplyRightError(mesh, config, t)

ApplyPartial(d, mesh, config, t) ==
    IF ApplyLeftError(mesh, config, t) # None THEN d ELSE ApplyLeft(d, mesh, config, t)

FindNodeIndex(mesh, s, t) ==
    LET hits == { p \in DOMAIN mesh.nodes :
                    Near(mesh.nodes[p][1], s) /\ Near(mesh.nodes[p][2], t) }
    IN  IF hits = {} THEN NoneObj
        ELSE [none |-> FALSE,
              idx |-> CHOOSE p \in hits : \A q \in hits \ {p} : DictBefore(p, q)]

\* the value self.solution holds at the node with coordinates (s, t)
ValueAt(d, mesh, s, t) ==
    LET index == FindNodeIndex(mesh, s, t)
    IN  IF index.none THEN << Zero, Zero >> ELSE SolGet(d, index.idx)

Half(h) == RDiv(h, R(2))

\* an except branch that returns the right predecessor's values
SingularFallbackRight(xl, yl, xr, yr) == << xr, yr >>

\* except np.linalg.LinAlgError: the midpoint of the predecessors' values
SingularFallback(xl, yl, xr, yr) == << Half(RAdd(xl, xr)), Half(RAdd(yl, yr)) >>

CenterSolve(config, s, t, sl, tl, xl, yl, hl, sr, tr, xr, yr, hr) ==
    LET B11 == CallCoef(config.B11, s, t)
        B12 == CallCoef(config.B12, s, t)
        B21 == CallCoef(config.B21, s, t)
        B22 == CallCoef(config.B22, s, t)
        F1 == CallCoef(config.F1, s, t)
        F2 == CallCoef(config.F2, s, t)
        B11_r == CallCoef(config.B11, sr, tr)
        B12_r == CallCoef(config.B12, sr, tr)
        B21_l == CallCoef(config.B21, sl, tl)
        B22_l == CallCoef(config.B22, sl, tl)
        F1_r == CallCoef(config.F1, sr, tr)
        F2_l == CallCoef(config.F2, sl, tl)
        a11 == RSub(R(1), RMul(Half(hr), B11))
        a12 == RNeg(RMul(Half(hr), B12))
        a21 == RNeg(RMul(Half(hl), B21))
        a22 == RSub(R(1), RMul(Half(hl), B22))
        b1 == RAdd(xr, RMul(Half(hr),
                 RAdd(RAdd(RMul(B11_r, xr), RMul(B12_r, yr)), RAdd(F1, F1_r))))
        b2 == RAdd(yl, RMul(Half(hl),
                 RAdd(RAdd(RMul(B21_l, xl), RMul(B22_l, yl)), RAdd(F2, F2_l))))
        det == RSub(RMul(a11, a22), RMul(a12, a21))
    IN  IF det[1] = 0
        THEN SingularFallback(xl, yl, xr, yr)
        ELSE << RDiv(RSub(RMul(b1, a22), RMul(a12, b2)), det),
                RDiv(RSub(RMul(a11, b2), RMul(a21, b1)), det) >>

SolveCenterNode(d, mesh, config, i, j, preceding) ==
    LET node == mesh.nodes[<< i, j >>]
        l == preceding.left
        r == preceding.right
        vl == ValueAt(d, mesh, l.s, l.t)
        vr == ValueAt(d, mesh, r.s, r.t)
        hl == RSub(node[2], l.t)
        hr == RSub(node[2], r.t)
    IN  CenterSolve(config, node[1], node[2], l.s, l.t, vl[1], vl[2], hl,
                    r.s, r.t, vr[1], vr[2], hr)

SolveLeftBoundary(d, mesh, config, i, j, preceding) ==
    LET t_current == mesh.nodes[<< i, j >>][2]
        y_value == IF config.left_boundary # None
                   THEN CallBoundary(config.left_boundary, t_current)
                   ELSE Zero
        x_value == IF preceding.right.none THEN Zero
                   ELSE ValueAt(d, mesh, preceding.right.s, preceding.right.t)[1]
    IN  << x_value, y_value >>

SolveRightBoundary(d, mesh, config, i, j, preceding) ==
    LET t_current == mesh.nodes[<< i, j >>][2]
        x_value == IF config.right_boundary # None
                   THEN CallBoundary(config.right_boundary, t_current)
                   ELSE Zero
        y_value == IF preceding.left.none THEN Zero
                   ELSE ValueAt(d, mesh, preceding.left.s, preceding.left.t)[2]
    IN  << x_value, y_value >>

RECURSIVE RSum(_, _, _)
RSum(d, ps, k) ==
    IF ps = {} THEN Zero
    ELSE LET p == CHOOSE q \in ps : TRUE
         IN  RAdd(d[p][k], RSum(d, ps \ {p}, k))

InterpolateNode(d, mesh, i, j) ==
    LET nb == { p \in ((i - 1) .. (i + 1)) \X ((j - 1) .. (j + 1)) :
                  /\ p # << i, j >>
                  /\ p \in DOMAIN mesh.nodes
                  /\ p \in DOMAIN d }
        count == Cardinality(nb)
    IN  IF count > 0
        THEN << RDiv(RSum(d, nb, 1), R(count)), RDiv(RSum(d, nb, 2), R(count)) >>
        ELSE << Zero, Zero >>

SolveBoundaryNode(d, mesh, config, i, j, preceding) ==
    LET s == mesh.nodes[<< i, j >>][1]
    IN  IF Near(s, mesh.frame.S0) THEN SolveLeftBoundary(d, mesh, config, i, j, preceding)
        ELSE IF Near(s, mesh.frame.S1) THEN SolveRightBoundary(d, mesh, config, i, j, preceding)
        ELSE InterpolateNode(d, mesh, i, j)

SolveNode(d, mesh, config, i, j) ==
    LET preceding == GetPrecedingNodes(mesh, i, j)
        has_left == ~preceding.left.none
        has_right == ~preceding.right.none
    IN  IF has_left /\ has_right
        THEN SolveCenterNode(d, mesh, config, i, j, preceding)
        ELSE SolveBoundaryNode(d, mesh, config, i, j, preceding)

\* sorted(self.mesh.nodes.items(), key=time): a stable sort of the dict order
SortBefore(mesh, p, q) ==
    \/ RLt(mesh.nodes[p][2], mesh.nodes[q][2])
    \/ (mesh.nodes[p][2] = mesh.nodes[q][2] /\ DictBefore(p, q))

ByRank(ps, rank) ==
    [k \in 1 .. Cardinality(ps) |-> CHOOSE p \in ps : rank[p] = k - 1]

SortedNodes(mesh) ==
    ByRank(DOMAIN mesh.nodes,
           [p \in DOMAIN mesh.nodes |->
              Cardinality({ q \in DOMAIN mesh.nodes : SortBefore(mesh, q, p) })])

\* the test of a pass that stops at t instead of t + dt
SkippedIgnoresDt(mesh, p, t, dt) == RLt(t, mesh.nodes[p][2])

\* if t_node > t + dt: continue
Skipped(mesh, p, t, dt) == RLt(RAdd(t, dt), mesh.nodes[p][2])

\* the nodes _solve_step solves, in the order it visits them
VisitOrder(sorted, mesh, t, dt) ==
    SelectSeq(sorted, LAMBDA p : ~Skipped(mesh, p, t, dt))

\* every node reads self.solution (d), never the new_solution being built
SolveStep(d, mesh, config, order) ==
    [p \in { order[k] : k \in 1 .. Len(order) } |->
        SolveNode(d, mesh, config, p[1], p[2])]

\* a _center_solve whose coefficient calls are caught like LinAlgError is
CoefErrorCaught(config) == None

\* the exception of the first coefficient call of _center_solve that raises:
\* B11, B12, B21, B22, F1, F2 at (s, t), each outside the try block
CoefError(config) ==
    LET called == << "B11", "B12", "B21", "B22", "F1", "F2" >>
        bad == { k \in 1 .. Len(called) : Raises(config[called[k]]) # None }
    IN  IF bad = {} THEN None
        ELSE Raises(config[called[CHOOSE k \in bad : \A l \in bad : k <= l]])

\* the exception _solve_node raises at node p from a callable it calls
NodeError(mesh, config, p) ==
    LET preceding == GetPrecedingNodes(mesh, p[1], p[2])
        s == mesh.nodes[p][1]
    IN  IF ~preceding.left.none /\ ~preceding.right.none THEN CoefError(config)
        ELSE IF Near(s, mesh.frame.S0)
        THEN (IF config.left_boundary # None THEN Raises(config.left_boundary) ELSE None)
        ELSE IF Near(s, mesh.frame.S1)
        THEN (IF config.right_boundary # None THEN Raises(config.right_boundary) ELSE None)
        ELSE None

\* the exception _solve_step raises: that of the first visited node that raises
SolveError(mesh, config, order) ==
    LET bad == { k \in 1 .. Len(order) : NodeError(mesh, config, order[k]) # None }
    IN  IF bad = {} THEN None
        ELSE NodeError(mesh, config, order[CHOOSE k \in bad : \A l \in bad : k <= l])

\* what _solve_node raises at node p while self.solution is None: .get on None
\* once a preceding node is looked up, `in None` once a neighbour is found
\* (the boundary functions of the configurations that leave it None return)
UnsolvedError(mesh, p) ==
    LET preceding == GetPrecedingNodes(mesh, p[1], p[2])
        s == mesh.nodes[p][1]
        nb == { q \in ((p[1] - 1) .. (p[1] + 1)) \X ((p[2] - 1) .. (p[2] + 1)) :
                  q # p /\ q \in DOMAIN mesh.nodes }
    IN  IF ~preceding.left.none /\ ~preceding.right.none THEN "AttributeError"
        ELSE IF Near(s, mesh.frame.S0)
        THEN (IF preceding.right.none THEN None ELSE "AttributeError")
        ELSE IF Near(s, mesh.frame.S1)
        THEN (IF preceding.left.none THEN None ELSE "AttributeError")
        ELSE IF nb # {} THEN "TypeError"
        ELSE None

\* the error of the first visited node that raises, None when none does
FirstError(mesh, order) ==
    LET bad == { k \in 1 .. Len(order) : UnsolvedError(mesh, order[k]) # None }
    IN  IF bad = {} THEN None
        ELSE UnsolvedError(mesh, order[CHOOSE k \in bad : \A l \in bad : k <= l])

(***************************************************************************)
(* Lumped blocks: ODEBlock and FunctionBlock over BaseConcentratedBlock.   *)
(*   rhs_function (t, state, inputs): "one" the constant 1,                *)
(*                                    "neg" the derivative -state,         *)
(*                                    "cnt" the derivative len(inputs)     *)
(*   function: "lin" the callable t |-> 2t + 1, "num" the number 3         *)
(***************************************************************************)
CallRhs(f, t, x, inputs) ==
    IF f = "neg" THEN RNeg(x)
    ELSE IF f = "cnt" THEN R(Cardinality(inputs))
    ELSE R(1)

\* a connection that yields 0.0 where its source has no value
GetValueZero(conn, t) == [none |-> FALSE, v |-> Zero]

\* BoundaryConnection.get_value: return None
GetValue(conn, t) == NoneObj

\* _collect_inputs: the connections whose value is not None, each entered
\* under its source_boundary (here its position in self.connections)
CollectInputs(conns, t) ==
    { c \in 1 .. Len(conns) : ~GetValue(conns[c], t).none }

\* classic Runge-Kutta step of ODEBlock.step; _compute_derivative collects the
\* inputs anew at the time of each stage
RungeKutta(f, t, x, dt, conns) ==
    LET k1 == CallRhs(f, t, x, CollectInputs(conns, t))
        k2 == CallRhs(f, RAdd(t, Half(dt)), RAdd(x, Half(RMul(dt, k1))),
                      CollectInputs(conns, RAdd(t, Half(dt))))
        k3 == CallRhs(f, RAdd(t, Half(dt)), RAdd(x, Half(RMul(dt, k2))),
                      CollectInputs(conns, RAdd(t, Half(dt))))
        k4 == CallRhs(f, RAdd(t, dt), RAdd(x, RMul(dt, k3)),
                      CollectInputs(conns, RAdd(t, dt)))
    IN  RAdd(x, RMul(RDiv(dt, R(6)),
                     RAdd(RAdd(k1, RInt(2, k2)), RAdd(RInt(2, k3), k4))))

\* FunctionBlock._validate_function: the error it raises, or None
ValidateFunction(config) ==
    IF config.function_type = "constant"
    THEN IF config.function = "num" THEN None ELSE "ValueError"
    ELSE IF config.function_type \in {"time", "time_inputs"}
    THEN IF config.function = "lin" THEN None ELSE "ValueError"
    ELSE None

\* FunctionBlock._compute_value: the value returned or the error raised
ComputeValue(config, t, inputs) ==
    IF config.function_type = "constant"
    THEN [err |-> None, v |-> R(3)]
    ELSE IF config.function_type \in {"time", "time_inputs"}
    THEN [err |-> None, v |-> RAdd(RInt(2, t), R(1))]
    ELSE [err |-> "RuntimeError", v |-> Zero]

(***************************************************************************)
(* Characteristic: a line through center with direction (step, dt), clipped *)
(* by the frame.  Two classes carry the name:                               *)
(*   "dtype"     cascadoc/blocks/distributed_blocks/dtype/characteristic.py *)
(*   "hyp_block" .../distributed_blocks/hyp_block/dtype/characteristic.py   *)
(* A point that may be None is [none |-> TRUE] or [none |-> FALSE, s, t].   *)
(***************************************************************************)
Point(s, t) == [none |-> FALSE, s |-> s, t |-> t]

\* Python round(x): to the nearest integer, halves to the even one
RoundHalfEven(a) ==
    LET fl == a[1] \div a[2]
        twice == 2 * (a[1] - fl * a[2])
    IN  IF twice < a[2] THEN fl
        ELSE IF twice > a[2] THEN fl + 1
        ELSE IF fl % 2 = 0 THEN fl ELSE fl + 1

RECURSIVE Strip(_, _, _)
\* d with up to n factors p removed
Strip(d, p, n) == IF n > 0 /\ d % p = 0 THEN Strip(d \div p, p, n - 1) ELSE d

\* x has at most ten decimal digits
Decimal10(a) == Strip(Strip(a[2], 2, 10), 5, 10) = 1

\* round(x, 10): a number of at most ten decimal digits is its own rounding.
\* Any other moves to a neighbouring multiple of 10^-10, which the integers of
\* the model cannot hold: the operator is undefined there and the
\* configurations keep every clip point decimal.
Round10(a) == CHOOSE r \in {a} : Decimal10(a)

\* A coordinate the source computes in floats is its exact value plus a
\* round-off error far smaller than EPS.  A computed point carries the sign of
\* that error for each coordinate (es, et: -1, 0 or 1); it matters only where
\* the exact value lies on an edge.
Computed(s, t, es, et) == [none |-> FALSE, s |-> s, t |-> t, es |-> es, et |-> et]

\* lo <= x <= hi on the exact value of x.  The hyp_block class widens the
\* interval by EPS = 1e-10: an exact value of the model is on an edge or
\* farther than EPS from it, and a round-off error is below EPS, so the widened
\* test of the computed value is the plain test of the exact one; the dtype
\* class is only given error-free values
Within(cls, lo, x, hi) == RLe(lo, x) /\ RLe(x, hi)

\* self.frame.contains(point[0], point[1]) of a computed point: the exact
\* comparisons, which an error pointing out of an edge fails
ContainsComputed(frame, q) ==
    /\ Contains(frame, q.s, q.t)
    /\ ~(q.s = frame.S0 /\ q.es < 0) /\ ~(q.s = frame.S1 /\ q.es > 0)
    /\ ~(q.t = frame.T0 /\ q.et < 0) /\ ~(q.t = frame.T1 /\ q.et > 0)

\* roundoff is the sign of the error of the transverse coordinate computed
IntersectVertical(cls, s, center, dt, step, frame, roundoff) ==
    IF step = Zero THEN NoneObj
    ELSE LET k == RDiv(RSub(s, center[1]), step)
             t == RAdd(center[2], RMul(k, dt))
         IN  IF Within(cls, frame.T0, t, frame.T1)
             THEN Computed(s, t, 0, roundoff) ELSE NoneObj

IntersectHorizontal(cls, t, center, dt, step, frame, roundoff) ==
    IF dt = Zero THEN NoneObj
    ELSE LET k == RDiv(RSub(t, center[2]), dt)
             s == RAdd(center[1], RMul(k, step))
         IN  IF Within(cls, frame.S0, s, frame.S1)
             THEN Computed(s, t, roundoff, 0) ELSE NoneObj

IntersectWithBoundary(cls, value, boundary_type, center, dt, step, frame, roundoff) ==
    IF boundary_type = "vertical"
    THEN IntersectVertical(cls, value, center, dt, step, frame, roundoff)
    ELSE IntersectHorizontal(cls, value, center, dt, step, frame, roundoff)

\* the four candidate points in the order the boundaries are tried
Candidates(cls, center, dt, step, frame, roundoff) ==
    << IntersectWithBoundary(cls, frame.S0, "vertical", center, dt, step, frame, roundoff),
       IntersectWithBoundary(cls, frame.S1, "vertical", center, dt, step, frame, roundoff),
       IntersectWithBoundary(cls, frame.T0, "horizontal", center, dt, step, frame, roundoff),
       IntersectWithBoundary(cls, frame.T1, "horizontal", center, dt, step, frame, roundoff) >>

\* the point appended: round(., 10) of the hyp_block class takes the error off
Kept(cls, frame, point) ==
    IF cls = "hyp_block" THEN Point(Round10(point.s), Round10(point.t))
    ELSE Point(point.s, point.t)

FilterKept(cls, frame, points) ==
    LET keep == SelectSeq(points, LAMBDA q : ~q.none /\ ContainsComputed(frame, q))
    IN  [n \in 1 .. Len(keep) |-> Kept(cls, frame, keep[n])]

\* the points where the line meets the four edge lines, wherever they fall
FindBoundaryIntersectionsUnclipped(cls, center, dt, step, frame, roundoff) ==
    (IF step = Zero THEN << >>
     ELSE [n \in 1 .. 2 |->
             LET s == IF n = 1 THEN frame.S0 ELSE frame.S1
             IN  Point(s, RAdd(center[2], RMul(RDiv(RSub(s, center[1]), step), dt)))])
    \o (IF dt = Zero THEN << >>
        ELSE [n \in 1 .. 2 |->
                LET t == IF n = 1 THEN frame.T0 ELSE frame.T1
                IN  Point(RAdd(center[1], RMul(RDiv(RSub(t, center[2]), dt), step)), t)])

FindBoundaryIntersections(cls, center, dt, step, frame, roundoff) ==
    FilterKept(cls, frame, Candidates(cls, center, dt, step, frame, roundoff))

\* the first and the last intersection in the order they were found
SetBoundaryNodesUnsorted(xs) == << xs[1], xs[Len(xs)] >>

\* intersections.sort(key=lambda p: p[0]) is stable: the first of the sorted
\* list is the earliest point of least s, the last the latest of greatest s
SetBoundaryNodes(xs) ==
    LET ns == 1 .. Len(xs)
        lo == CHOOSE n \in ns : \A q \in ns :
                 RLt(xs[n].s, xs[q].s) \/ (xs[n].s = xs[q].s /\ n <= q)
        hi == CHOOSE n \in ns : \A q \in ns :
                 RLt(xs[q].s, xs[n].s) \/ (xs[n].s = xs[q].s /\ q <= n)
    IN  << xs[lo], xs[hi] >>

CalculateK(point, center, dt, step) ==
    IF step # Zero
    THEN RoundHalfEven(RDiv(RSub(point.s, center[1]), step))
    ELSE RoundHalfEven(RDiv(RSub(point.t, center[2]), dt))

CharNode(k, center, dt, step) ==
    << RAdd(center[1], RInt(k, step)), RAdd(center[2], RInt(k, dt)) >>

GenerateInternalNodes(k_left, k_right, center, dt, step, frame) ==
    [k \in { n \in k_left .. k_right :
               Contains(frame, CharNode(n, center, dt, step)[1],
                               CharNode(n, center, dt, step)[2]) }
       |-> CharNode(k, center, dt, step)]

SetMin(ks) == CHOOSE k \in ks : \A n \in ks : k <= n
SetMax(ks) == CHOOSE k \in ks : \A n \in ks : n <= k

\* the object the constructor leaves; has_k tells whether the attributes
\* k_left and k_right exist, err is the exception the constructor raised
CharObject(cls, err, nodes, bounds, has_k, kl, kr) ==
    [none |-> FALSE, cls |-> cls, err |-> err, internal_nodes |-> nodes,
     boundary_nodes |-> bounds, has_k |-> has_k, k_left |-> kl, k_right |-> kr]

CharFromNodes(cls, nodes, bounds) ==
    IF cls = "dtype" THEN CharObject(cls, None, nodes, bounds, FALSE, 0, 0)
    \* min(k_array) of an empty list
    ELSE IF DOMAIN nodes = {} THEN CharObject(cls, "ValueError", nodes, bounds, FALSE, 0, 0)
    ELSE CharObject(cls, None, nodes, bounds, TRUE, SetMin(DOMAIN nodes), SetMax(DOMAIN nodes))

CharFromBounds(cls, bounds, center, dt, step, frame) ==
    CharFromNodes(cls,
        GenerateInternalNodes(CalculateK(bounds[1], center, dt, step),
                              CalculateK(bounds[2], center, dt, step),
                              center, dt, step, frame),
        bounds)

BuildCharacteristic(cls, xs, center, dt, step, frame) ==
    IF Len(xs) = 0
    THEN CharObject(cls, None, << >>, << NoneObj, NoneObj >>, FALSE, 0, 0)
    ELSE CharFromBounds(cls, SetBoundaryNodes(xs), center, dt, step, frame)

Characteristic(cls, center, dt, step, frame, roundoff) ==
    BuildCharacteristic(cls,
                        FindBoundaryIntersections(cls, center, dt, step, frame, roundoff),
                        center, dt, step, frame)

\* The two families of a CharacteristicMesh: the member of index n is the
\* Characteristic through the center shifted by n steps, negative members
\* running with -dt1 and positive ones with dt2.  cls is the class the
\* name Characteristic is bound to.
NegativeMember(cls, m, j) ==
    Characteristic(cls,
                   << RAdd(m.center[1], RInt(j, m.ds)), RAdd(m.center[2], RInt(j, m.dt2)) >>,
                   RNeg(m.dt1), m.ds, m.frame, 0)

PositiveMember(cls, m, i) ==
    Characteristic(cls,
                   << RAdd(m.center[1], RInt(i, m.ds)), RSub(m.center[2], RInt(i, m.dt1)) >>,
                   m.dt2, m.ds, m.frame, 0)

\* the loop "for n in range(...): char = Characteristic(...);
\* if char.internal_nodes: chars[n] = char" over the members given: the
\* exception of the first member that raises ends it
BuildFamily(members, range) ==
    LET ns == range[1] .. range[2]
        raising == { n \in ns : members[n].err # None }
    IN  IF raising # {}
        THEN [err |-> members[SetMin(raising)].err, chars |-> << >>]
        ELSE [err |-> None,
              chars |-> [n \in { k \in ns : DOMAIN members[k].internal_nodes # {} }
                           |-> members[n]]]

BuildNegativeCharacteristics(cls, m) ==
    BuildFamily([j \in m.j_range[1] .. m.j_range[2] |-> NegativeMember(cls, m, j)],
                m.j_range)

BuildPositiveCharacteristics(cls, m) ==
    BuildFamily([i \in m.i_range[1] .. m.i_range[2] |-> PositiveMember(cls, m, i)],
                m.i_range)

\* _build_characteristics: the negative family, then the positive one
BuildCharacteristics(cls, m) ==
    LET neg == BuildNegativeCharacteristics(cls, m)
        pos == BuildPositiveCharacteristics(cls, m)
    IN  IF neg.err # None THEN [err |-> neg.err]
        ELSE IF pos.err # None THEN [err |-> pos.err]
        ELSE [err |-> None, negative_chars |-> neg.chars, positive_chars |-> pos.chars]

DictGet(nodes, index) ==
    IF index \in DOMAIN nodes THEN Point(nodes[index][1], nodes[index][2]) ELSE NoneObj

\* a get_node that never clamps
CharGetNodePlain(c, index) == [err |-> None, v |-> DictGet(c.internal_nodes, index)]

\* Characteristic.get_node: the value returned or the exception raised
CharGetNode(c, index) ==
    IF c.cls = "dtype" THEN [err |-> None, v |-> DictGet(c.internal_nodes, index)]
    ELSE IF ~c.has_k THEN [err |-> "AttributeError", v |-> NoneObj]
    ELSE IF index < c.k_left THEN [err |-> None, v |-> c.boundary_nodes[1]]
    ELSE IF index > c.k_right THEN [err |-> None, v |-> c.boundary_nodes[2]]
    ELSE [err |-> None, v |-> DictGet(c.internal_nodes, index)]

(***************************************************************************)
(* Configurations and call arguments.                                      *)
(***************************************************************************)
Geometries ==
    { [S |-> << R(0), R(1) >>, T |-> << R(0), R(1) >>, C |-> << R(1), R(1) >>],
      [S |-> << R(0), R(2) >>, T |-> << R(0), R(1) >>, C |-> << R(1), R(2) >>] }

\* the example of test/test_hyp_mesh.py
ReferenceGeometry ==
    [S |-> << R(0), R(1) >>, T |-> << R(0), Q(1, 2) >>,
     C |-> << Q(1001, 1000), Q(1999, 1000) >>]

ReferenceM == 3

\* a square whose step makes hr / 2 * B11 = 1 for B11 = 1 (m = 1: ds = dt2 = 2)
SingularGeometry ==
    [S |-> << R(0), R(4) >>, T |-> << R(0), R(4) >>, C |-> << R(1), R(1) >>]

Steps(ks, m, h) == [keys |-> ks, m |-> m, h |-> h]

ZeroCoefs ==
    [B11 |-> "zero", B12 |-> "zero", B21 |-> "zero", B22 |-> "zero",
     F1 |-> "zero", F2 |-> "zero"]

Coefs ==
    { ZeroCoefs,
      [B11 |-> "one", B12 |-> "one", B21 |-> "zero", B22 |-> "one",
       F1 |-> "one", F2 |-> "zero"] }

Callables ==
    { [left_boundary |-> b, right_boundary |-> b, initial_x |-> i, initial_y |-> i] :
        b \in {None, "zero", "lin"}, i \in {"zero", "aff"} }

HypConfig(g, k, c, f) ==
    [S |-> g.S, T |-> g.T, C |-> g.C, keys |-> k.keys, m |-> k.m, h |-> k.h,
     B11 |-> c.B11, B12 |-> c.B12, B21 |-> c.B21, B22 |-> c.B22,
     F1 |-> c.F1, F2 |-> c.F2,
     left_boundary |-> f.left_boundary, right_boundary |-> f.right_boundary,
     initial_x |-> f.initial_x, initial_y |-> f.initial_y]

PinnedCallables ==
    [left_boundary |-> "lin", right_boundary |-> "lin",
     initial_x |-> "aff", initial_y |-> "aff"]

\* initial functions of which one or both are None
PartialInitials ==
    { [left_boundary |-> "lin", right_boundary |-> "lin", initial_x |-> x, initial_y |-> y] :
        x \in {None, "aff"}, y \in {None, "aff"} } \ { PinnedCallables }

\* one callable that raises: a coefficient, a forcing, either boundary
RaisingCoefs ==
    { [ZeroCoefs EXCEPT !.B12 = "raiseK"], [ZeroCoefs EXCEPT !.F2 = "raiseZ"] }

RaisingBoundaries ==
    { [PinnedCallables EXCEPT !.left_boundary = "raiseK"],
      [PinnedCallables EXCEPT !.right_boundary = "raiseZ"] }

\* from m: every choice of callables with zero coefficients and one choice with
\* non-zero ones; from h, from both keys and from neither: one choice each;
\* and the reference example
HypConfigs ==
    { HypConfig(g, Steps({"m"}, k, Zero), ZeroCoefs, f) :
        g \in Geometries, k \in 1 .. MaxM, f \in Callables }
    \cup { HypConfig(g, Steps({"m"}, k, Zero), c, PinnedCallables) :
             g \in Geometries, k \in 1 .. MaxM, c \in Coefs }
    \cup { HypConfig(g, Steps(ks, 1, Q(2, 3)), c, PinnedCallables) :
             g \in Geometries, ks \in { {"h"}, {"m", "h"}, {} }, c \in Coefs }
    \cup { HypConfig(ReferenceGeometry, Steps({"m"}, ReferenceM, Zero),
                     ZeroCoefs, PinnedCallables) }
    \cup { HypConfig(g, Steps({"m"}, 1, Zero), ZeroCoefs, f) :
             g \in Geometries, f \in PartialInitials \cup RaisingBoundaries }
    \cup { HypConfig(g, Steps({"m"}, 1, Zero), c, PinnedCallables) :
             g \in Geometries, c \in RaisingCoefs }
    \cup { HypConfig(SingularGeometry, Steps({"m"}, 1, Zero), c, PinnedCallables) :
             c \in Coefs }

OdeConfigs ==
    { [rhs_function |-> f, initial_state |-> x] :
        f \in {"one", "neg", "cnt"}, x \in {R(0), R(1)} }

FnConfigs ==
    { [function |-> f, function_type |-> ty] :
        f \in {"lin", "num"}, ty \in {"constant", "time", "time_inputs", "other"} }

\* the (t, dt) pairs passed to step
StepDts == { R(-1), R(0), Q(1, 2) }

HypStepArgs(m) ==
    { << m.frame.T0, R(-1) >>, << m.frame.T0, R(0) >>,
      << m.center[2], R(0) >>, << m.center[2], Q(1, 2) >> }
    \cup { << m.nodes[p][2], R(0) >> :
             p \in { q \in DOMAIN m.nodes : Near(m.nodes[q][1], m.frame.S1) } }

StartTimes == { R(0), R(1) }

(***************************************************************************)
(* State: one block object and the outcome of the last call made on it.    *)
(***************************************************************************)
VARIABLES
    kind,           \* the class of the block: "hyperbolic", "ode", "function"
    config,         \* the arguments its constructor is given
    constructed,    \* whether the constructor has returned an object
    initialized,    \* BaseBlock.initialized
    mesh,           \* BaseDistributedBlock.mesh: NoneObj or a CharacteristicMesh
    solution,       \* BaseDistributedBlock.solution: NoneObj or [d |-> dict]
    state,          \* BaseConcentratedBlock.state: NoneObj or [v |-> value]
    current_time,   \* BaseConcentratedBlock.current_time
    current_value,  \* FunctionBlock.current_value
    history,        \* ODEBlock.history / FunctionBlock.history
    last,           \* the last call: its name, arguments, exception, visit order
    steps,          \* the number of step calls made so far
    char,           \* a Characteristic object, or NoneObj before its constructor
    ret,            \* what the last query returned: NoneObj or [v |-> value]
    connections     \* BaseBlock.connections: the ready_until of each connection

vars == << kind, config, constructed, initialized, mesh, solution, state,
           current_time, current_value, history, last, steps, char, ret,
           connections >>

\* what the calls on a block leave alone
others == << char, ret, connections >>

fields == << initialized, mesh, solution, state, current_time, current_value, history >>

Call(op, err, t, dt, order) ==
    [op |-> op, err |-> err, t |-> t, dt |-> dt, order |-> order]

Init ==
    /\ kind \in {"hyperbolic", "ode", "function"}
    /\ config \in (CASE kind = "hyperbolic" -> HypConfigs
                     [] kind = "ode" -> OdeConfigs
                     [] OTHER -> FnConfigs)
    /\ constructed = FALSE
    /\ initialized = FALSE
    /\ mesh = NoneObj
    /\ solution = NoneObj
    /\ state = NoneObj
    /\ current_time = Zero
    /\ current_value = Zero
    /\ history = << >>
    /\ last = Call("none", None, Zero, Zero, << >>)
    /\ steps = 0
    /\ char = NoneObj
    /\ ret = NoneObj
    /\ connections = << >>

(***************************************************************************)
(* HyperbolicBlock.                                                        *)
(***************************************************************************)
\* __init__ reads config['C'] and the optional callables, never m or h
HypConstruct ==
    /\ kind = "hyperbolic" /\ ~constructed
    /\ constructed' = TRUE
    /\ last' = Call("construct", None, Zero, Zero, << >>)
    /\ UNCHANGED << kind, config, others, fields, steps >>

HypBuildMesh ==
    /\ kind = "hyperbolic" /\ constructed
    /\ LET built == BuiltMesh(mesh, config)
       IN  IF built.none
           THEN /\ last' = Call("build_mesh", built.err, Zero, Zero, << >>)
                /\ UNCHANGED mesh
           ELSE /\ mesh' = built
                /\ last' = Call("build_mesh", None, Zero, Zero, << >>)
    /\ UNCHANGED << kind, config, others, constructed, initialized, solution, state,
                    current_time, current_value, history, steps >>

\* BaseDistributedBlock.initialize: build_mesh, _initialize_solution, initialized
HypInitialize ==
    /\ kind = "hyperbolic" /\ constructed
    /\ LET built == BuiltMesh(mesh, config)
       IN  IF built.none
           THEN /\ last' = Call("initialize", built.err, Zero, Zero, << >>)
                /\ UNCHANGED << mesh, solution, initialized >>
           ELSE /\ mesh' = built
                /\ solution' = InitializeSolution(solution, built, config)
                /\ initialized' = TRUE
                /\ last' = Call("initialize", None, Zero, Zero, << >>)
    /\ UNCHANGED << kind, config, others, constructed, state, current_time, current_value,
                    history, steps >>

\* a guard that refuses only a block whose mesh is not built either
StepGuardNeedsNoMesh(init, m) == ~init /\ m.none

\* `if not self.initialized: raise RuntimeError`
StepGuard(init, m) == ~init

\* BaseDistributedBlock.step past its guard: the solution replaced wholesale
\* when _solve_step returns a non-empty dict
StepReturns(applied, order, new_solution, t, dt) ==
    /\ solution' = [none |-> FALSE,
                    d |-> IF DOMAIN new_solution # {} THEN new_solution ELSE applied]
    /\ last' = Call("step", None, t, dt, order)

\* a callable that raises in _apply_boundary_conditions or in _solve_step
\* ends step there: no handler on the way, self.solution as written so far
StepRaises(err, written, t, dt) ==
    /\ solution' = [none |-> FALSE, d |-> written]
    /\ last' = Call("step", err, t, dt, << >>)

StepSolves(applied, order, t, dt) ==
    IF SolveError(mesh, config, order) # None
    THEN StepRaises(SolveError(mesh, config, order), applied, t, dt)
    ELSE StepReturns(applied, order, SolveStep(applied, mesh, config, order), t, dt)

\* step on a block whose solution is still None: _apply_boundary_conditions
\* returns at once and _solve_step raises at the first node that reads it
StepUnsolved(order, t, dt) ==
    IF FirstError(mesh, order) # None
    THEN /\ last' = Call("step", FirstError(mesh, order), t, dt, << >>)
         /\ UNCHANGED solution
    ELSE IF order = << >>
    THEN /\ last' = Call("step", None, t, dt, order)
         /\ UNCHANGED solution
    ELSE StepReturns(<< >>, order, SolveStep(<< >>, mesh, config, order), t, dt)

StepFrom(sorted, t, dt) ==
    IF StepGuard(initialized, mesh)
    THEN /\ last' = Call("step", "RuntimeError", t, dt, << >>)
         /\ UNCHANGED solution
    ELSE IF solution.none
    THEN StepUnsolved(VisitOrder(sorted, mesh, t, dt), t, dt)
    ELSE IF ApplyError(solution.d, mesh, config, t) # None
    THEN StepRaises(ApplyError(solution.d, mesh, config, t),
                    ApplyPartial(solution.d, mesh, config, t), t, dt)
    ELSE StepSolves(ApplyBoundaryConditions(solution.d, mesh, config, t),
                    VisitOrder(sorted, mesh, t, dt), t, dt)

StepAny(sorted) ==
    \E a \in (IF mesh.none THEN { << Zero, Zero >> } ELSE HypStepArgs(mesh)) :
        StepFrom(sorted, a[1], a[2])

HypStep ==
    /\ kind = "hyperbolic" /\ constructed /\ steps < MaxSteps
    /\ StepAny(IF mesh.none THEN << >> ELSE SortedNodes(mesh))
    /\ steps' = steps + 1
    /\ UNCHANGED << kind, config, others, constructed, initialized, mesh, state,
                    current_time, current_value, history >>

(***************************************************************************)
(* ODEBlock.                                                               *)
(***************************************************************************)
OdeConstruct ==
    /\ kind = "ode" /\ ~constructed
    /\ constructed' = TRUE
    /\ last' = Call("construct", None, Zero, Zero, << >>)
    /\ UNCHANGED << kind, config, others, fields, steps >>

\* BaseConcentratedBlock.build_mesh: pass
ConcBuildMesh ==
    /\ kind \in {"ode", "function"} /\ constructed
    /\ last' = Call("build_mesh", None, Zero, Zero, << >>)
    /\ UNCHANGED << kind, config, others, constructed, fields, steps >>

OdeInitialize ==
    /\ kind = "ode" /\ constructed
    /\ \E t0 \in StartTimes :
       \E x \in {config.initial_state, R(2)} :
          /\ state' = [none |-> FALSE, v |-> x]
          /\ current_time' = t0
          /\ initialized' = TRUE
          /\ history' = << << t0, x >> >>
          /\ last' = Call("initialize", None, t0, Zero, << >>)
    /\ UNCHANGED << kind, config, others, constructed, mesh, solution, current_value, steps >>

OdeStep ==
    /\ kind = "ode" /\ constructed /\ steps < MaxSteps
    /\ \E dt \in StepDts, t \in StartTimes :
          IF StepGuard(initialized, mesh)
          THEN /\ last' = Call("step", "RuntimeError", t, dt, << >>)
               /\ UNCHANGED << state, current_time, history >>
          ELSE LET x == RungeKutta(config.rhs_function, t, state.v, dt, connections)
               IN  /\ state' = [none |-> FALSE, v |-> x]
                   /\ current_time' = RAdd(t, dt)
                   /\ history' = Append(history, << RAdd(t, dt), x >>)
                   /\ last' = Call("step", None, t, dt, << >>)
    /\ steps' = steps + 1
    /\ UNCHANGED << kind, config, others, constructed, initialized, mesh, solution, current_value >>

\* BaseBlock.connect on a lumped block: a new BoundaryConnection appended
ConcConnect ==
    /\ kind \in {"ode", "function"} /\ constructed
    /\ Len(connections) < MaxConns
    /\ connections' = Append(connections, Zero)
    /\ last' = Call("connect", None, Zero, Zero, << Len(connections) + 1 >>)
    /\ UNCHANGED << kind, config, constructed, fields, steps, char, ret >>

(***************************************************************************)
(* FunctionBlock.                                                          *)
(***************************************************************************)
FnConstruct ==
    /\ kind = "function" /\ ~constructed
    /\ LET err == ValidateFunction(config)
       IN  /\ constructed' = (err = None)
           /\ last' = Call("construct", err, Zero, Zero, << >>)
    /\ UNCHANGED << kind, config, others, fields, steps >>

\* the value _compute_value returns in initialize is not stored
FnInitialize ==
    /\ kind = "function" /\ constructed
    /\ \E t0 \in StartTimes :
          LET r == ComputeValue(config, t0, {})
          IN  /\ current_time' = t0
              /\ initialized' = TRUE
              /\ IF r.err # None
                 THEN /\ last' = Call("initialize", r.err, t0, Zero, << >>)
                      /\ UNCHANGED history
                 ELSE /\ history' = << << t0, current_value >> >>
                      /\ last' = Call("initialize", None, t0, Zero, << >>)
    /\ UNCHANGED << kind, config, others, constructed, mesh, solution, state, current_value, steps >>

FnStep ==
    /\ kind = "function" /\ constructed /\ steps < MaxSteps
    /\ \E dt \in StepDts, t \in StartTimes :
          IF StepGuard(initialized, mesh)
          THEN /\ last' = Call("step", "RuntimeError", t, dt, << >>)
               /\ UNCHANGED << current_value, current_time, history >>
          ELSE LET r == ComputeValue(config, t, CollectInputs(connections, t))
               IN  IF r.err # None
                   THEN /\ last' = Call("step", r.err, t, dt, << >>)
                        /\ UNCHANGED << current_value, current_time, history >>
                   ELSE /\ current_value' = r.v
                        /\ current_time' = RAdd(t, dt)
                        /\ history' = Append(history, << RAdd(t, dt), r.v >>)
                        /\ last' = Call("step", None, t, dt, << >>)
    /\ steps' = steps + 1
    /\ UNCHANGED << kind, config, others, constructed, initialized, mesh, solution, state >>

Next ==
    \/ HypConstruct
    \/ HypBuildMesh
    \/ HypInitialize
    \/ HypStep
    \/ OdeConstruct
    \/ ConcBuildMesh
    \/ ConcConnect
    \/ OdeInitialize
    \/ OdeStep
    \/ FnConstruct
    \/ FnInitialize
    \/ FnStep

Spec == Init /\ [][Next]_vars

(***************************************************************************)
(* Characteristic on its own: the constructor and the two queries.         *)
(***************************************************************************)
\* the largest offset asked of get_node, and the offset of the test that is
\* far beyond every characteristic
MaxK == 3
\* the offsets k looked at when the lattice points of a line are counted
MaxLattice == 40
FarOffset == 9999

Offsets == (-MaxK .. MaxK) \cup { -FarOffset, FarOffset }

\* the frame of tests/distributed_blocks/dtype/test_characteristic.py and the
\* unit square, with centres inside, on an edge and outside
CharFrames ==
    { [frame |-> Rectangle(R(0), R(10), R(0), R(5)), center |-> c] :
        c \in { << R(5), Q(5, 2) >>, << R(5), R(2) >>, << R(10), R(16) >> } }
    \cup { [frame |-> Rectangle(R(0), R(1), R(0), R(1)), center |-> c] :
        c \in { << Q(1, 2), Q(1, 2) >>, << R(0), Q(1, 2) >>, << Q(-1, 2), Q(1, 2) >> } }

CharDts == { R(-1), R(0), Q(1, 2), R(1) }
CharSteps == { R(-1), R(0), Q(1, 2), R(1), R(2) }

\* configurations whose computed coordinates are exact
CharConfigs ==
    { [cls |-> cls, frame |-> f.frame, center |-> f.center, dt |-> dt, step |-> step,
       roundoff |-> 0] :
        cls \in {"dtype", "hyp_block"}, f \in CharFrames, dt \in CharDts,
        step \in CharSteps }

\* configurations of the hyp_block class whose computed transverse coordinates
\* fall short of (-1) or exceed (1) their exact value
RoundoffConfigs ==
    { [cls |-> "hyp_block", frame |-> f.frame, center |-> f.center, dt |-> dt,
       step |-> step, roundoff |-> e] :
        f \in CharFrames, dt \in CharDts, step \in CharSteps, e \in {-1, 1} }

Returned(v) == [none |-> FALSE, v |-> v]

CharInit ==
    /\ kind = "characteristic"
    /\ config \in CharConfigs
    /\ constructed = FALSE
    /\ initialized = FALSE
    /\ mesh = NoneObj
    /\ solution = NoneObj
    /\ state = NoneObj
    /\ current_time = Zero
    /\ current_value = Zero
    /\ history = << >>
    /\ last = Call("none", None, Zero, Zero, << >>)
    /\ steps = 0
    /\ char = NoneObj
    /\ ret = NoneObj
    /\ connections = << >>

CharBuilt(c) ==
    IF c.err # None
    THEN /\ last' = Call("construct", c.err, Zero, Zero, << >>)
         /\ UNCHANGED << char, constructed >>
    ELSE /\ char' = c
         /\ constructed' = TRUE
         /\ last' = Call("construct", None, Zero, Zero, << >>)

\* Characteristic.__init__
CharConstruct ==
    /\ kind = "characteristic" /\ ~constructed
    /\ CharBuilt(Characteristic(config.cls, config.center, config.dt, config.step,
                                config.frame, config.roundoff))
    /\ UNCHANGED << kind, config, fields, steps, ret, connections >>

CharAnswered(r, index) ==
    /\ last' = Call("get_node", r.err, R(index), Zero, << >>)
    /\ ret' = IF r.err = None THEN Returned(r.v) ELSE NoneObj

\* Characteristic.get_node
CharGetNodeCall ==
    /\ kind = "characteristic" /\ constructed
    /\ \E index \in Offsets : CharAnswered(CharGetNode(char, index), index)
    /\ UNCHANGED << kind, config, constructed, fields, steps, char, connections >>

\* Characteristic.get_boundary_nodes
CharGetBoundaryNodes ==
    /\ kind = "characteristic" /\ constructed
    /\ last' = Call("get_boundary_nodes", None, Zero, Zero, << >>)
    /\ ret' = Returned(char.boundary_nodes)
    /\ UNCHANGED << kind, config, constructed, fields, steps, char, connections >>

CharNext == CharConstruct \/ CharGetNodeCall \/ CharGetBoundaryNodes

CharSpec == CharInit /\ [][CharNext]_vars

\* the same objects, built from coordinates computed with round-off
RoundoffInit ==
    /\ kind = "characteristic"
    /\ config \in RoundoffConfigs
    /\ constructed = FALSE
    /\ initialized = FALSE
    /\ mesh = NoneObj
    /\ solution = NoneObj
    /\ state = NoneObj
    /\ current_time = Zero
    /\ current_value = Zero
    /\ history = << >>
    /\ last = Call("none", None, Zero, Zero, << >>)
    /\ steps = 0
    /\ char = NoneObj
    /\ ret = NoneObj
    /\ connections = << >>

RoundoffSpec == RoundoffInit /\ [][CharNext]_vars

(***************************************************************************)
(* The readiness gate: a block, the connections made to it                 *)
(* (core/connection.py) and the polls of BaseBlock.is_ready.               *)
(***************************************************************************)
\* the times passed to mark_ready and to is_ready
GateTimes == { R(-1), R(0), Q(1, 2), R(1), R(2) }

\* a connection that is ready only before its ready_until
ConnIsReadyBefore(t, ready_until) == RLt(t, ready_until)

\* BoundaryConnection.is_ready: t <= self.ready_until
ConnIsReady(t, ready_until) == RLe(t, ready_until)

\* BaseBlock.is_ready: all(conn.is_ready(t) for conn in self.connections)
BlockIsReady(conns, t) == \A c \in 1 .. Len(conns) : ConnIsReady(t, conns[c])

\* BaseBlock.__init__: no connection, not initialized
GateInit ==
    /\ kind = "block"
    /\ config = NoneObj
    /\ constructed = TRUE
    /\ initialized = FALSE
    /\ mesh = NoneObj
    /\ solution = NoneObj
    /\ state = NoneObj
    /\ current_time = Zero
    /\ current_value = Zero
    /\ history = << >>
    /\ last = Call("none", None, Zero, Zero, << >>)
    /\ steps = 0
    /\ char = NoneObj
    /\ ret = NoneObj
    /\ connections = << >>

\* ConnectionManager.connect_blocks: a BoundaryConnection with ready_until = 0.0,
\* appended to the target block by BaseBlock.connect
GateConnect ==
    /\ kind = "block" /\ Len(connections) < MaxConns
    /\ connections' = Append(connections, Zero)
    /\ last' = Call("connect", None, Zero, Zero, << Len(connections) + 1 >>)
    /\ UNCHANGED << kind, config, constructed, fields, steps, char, ret >>

\* BoundaryConnection.mark_ready on connection c
GateMarkReady ==
    /\ kind = "block"
    /\ \E c \in 1 .. Len(connections), until_time \in GateTimes :
          /\ connections' = [connections EXCEPT ![c] = until_time]
          /\ last' = Call("mark_ready", None, until_time, Zero, << c >>)
    /\ UNCHANGED << kind, config, constructed, fields, steps, char, ret >>

\* BoundaryConnection.is_ready on connection c
GateConnIsReady ==
    /\ kind = "block"
    /\ \E c \in 1 .. Len(connections), t \in GateTimes :
          /\ ret' = Returned(ConnIsReady(t, connections[c]))
          /\ last' = Call("conn_is_ready", None, t, Zero, << c >>)
    /\ UNCHANGED << kind, config, constructed, fields, steps, char, connections >>

\* BaseBlock.is_ready
GateBlockIsReady ==
    /\ kind = "block"
    /\ \E t \in GateTimes :
          /\ ret' = Returned(BlockIsReady(connections, t))
          /\ last' = Call("is_ready", None, t, Zero, << >>)
    /\ UNCHANGED << kind, config, constructed, fields, steps, char, connections >>

GateNext == GateConnect \/ GateMarkReady \/ GateConnIsReady \/ GateBlockIsReady

GateSpec == GateInit /\ [][GateNext]_vars

(***************************************************************************)
(* Properties.                                                             *)
(***************************************************************************)
NodeTime(p) == mesh.nodes[p][2]
NodeS(p) == mesh.nodes[p][1]

\* the last call was a step that returned, on a hyperbolic block that holds a
\* solution
HypStepped ==
    kind = "hyperbolic" /\ last.op = "step" /\ last.err = None /\ ~solution.none

\* this transition is a step call that returned, made on a hyperbolic block
\* that holds a solution
HypStepReturns ==
    kind = "hyperbolic" /\ steps' = steps + 1 /\ last'.err = None /\ ~solution.none

Predecessors(p) ==
    { << p[1] - 1, p[2] >>, << p[1], p[2] - 1 >> } \cap DOMAIN mesh.nodes

\* C1: in every solve pass the nodes are visited in ascending time order, and
\* each visited node's left (i-1,j) and right (i,j-1) predecessors that are in
\* the mesh have a strictly earlier time and are visited before it.
C1_CausalVisitOrder ==
    HypStepped =>
        LET order == last.order
        IN  /\ \A k, l \in 1 .. Len(order) :
                 k < l => RLe(NodeTime(order[k]), NodeTime(order[l]))
            /\ \A k \in 1 .. Len(order) :
                 \A q \in Predecessors(order[k]) :
                    /\ RLt(NodeTime(q), NodeTime(order[k]))
                    /\ \E l \in 1 .. (k - 1) : order[l] = q

Qualifying(t, dt) == { p \in DOMAIN mesh.nodes : RLe(NodeTime(p), RAdd(t, dt)) }

PinnedAt(p, t) ==
    \/ config.left_boundary # None /\ NodeS(p) = mesh.frame.S0 /\ NodeTime(p) = t
    \/ config.right_boundary # None /\ NodeS(p) = mesh.frame.S1 /\ NodeTime(p) = t

C3_BoundaryValuesInResult ==
    (HypStepped /\ RLe(Zero, last.dt)) =>
        \A p \in DOMAIN mesh.nodes :
            /\ (config.left_boundary # None /\ NodeS(p) = mesh.frame.S0
                  /\ NodeTime(p) = last.t)
               => (p \in DOMAIN solution.d
                     /\ solution.d[p][2] = CallBoundary(config.left_boundary, last.t))
            /\ (config.right_boundary # None /\ NodeS(p) = mesh.frame.S1
                  /\ NodeTime(p) = last.t)
               => (p \in DOMAIN solution.d
                     /\ solution.d[p][1] = CallBoundary(config.right_boundary, last.t))

\* C4: with no left_boundary (right_boundary) configured a step leaves the
\* second unknown of every S0-edge node (first unknown of every S1-edge node)
\* at the value it had before the step.
C4_AbsentBoundaryKeepsValue ==
    [][HypStepReturns =>
        \A p \in DOMAIN solution.d \cap DOMAIN solution'.d :
            /\ (config.left_boundary = None /\ NodeS(p) = mesh.frame.S0)
               => solution'.d[p][2] = solution.d[p][2]
            /\ (config.right_boundary = None /\ NodeS(p) = mesh.frame.S1)
               => solution'.d[p][1] = solution.d[p][1]]_vars

\* C5: step on a block that was never initialized raises RuntimeError and
\* changes no field of the block, whatever its class and whether or not
\* build_mesh was called.
C5_UninitializedStepRaises ==
    [][(steps' = steps + 1 /\ ~initialized) =>
        (last'.op = "step" /\ last'.err = "RuntimeError" /\ UNCHANGED fields)]_vars

\* C5 witness: a hyperbolic block whose mesh is built refused a step
C5_Witness ==
    /\ kind = "hyperbolic" /\ ~mesh.none /\ ~initialized
    /\ last.op = "step" /\ last.err = "RuntimeError"

\* C6: building the mesh from a configuration that holds both m and h fails.
C6_BothKeysIsError ==
    (kind = "hyperbolic" /\ {"m", "h"} \subseteq config.keys /\ last.op \in {"build_mesh", "initialize"})
        => (last.err # None /\ mesh.none)

\* C7: a configuration with neither m nor h fails at construction, so no
\* hyperbolic block is ever constructed from it.
C7_MissingKeyFailsAtConstruction ==
    (kind = "hyperbolic" /\ config.keys = {}) => ~constructed

IsReference ==
    /\ kind = "hyperbolic"
    /\ config.S = ReferenceGeometry.S /\ config.T = ReferenceGeometry.T
    /\ config.C = ReferenceGeometry.C
    /\ config.keys = {"m"} /\ config.m = ReferenceM

ReferenceIndexes ==
    { << -1, -1 >>, << -1, 0 >>, << -1, 1 >>, << 0, -2 >>, << 0, -1 >>, << 0, 0 >>,
      << 0, 1 >>, << 0, 2 >>, << 1, -1 >>, << 1, 0 >>, << 1, 1 >> }

\* C8: for S=[0,1], T=[0,0.5], C=[1.001,1.999], m=3 the node-index set of the
\* built mesh is the 11-element reference set and every node lies strictly
\* inside (0,1) x (0,0.5).
C8_ReferenceMesh ==
    (IsReference /\ ~mesh.none) =>
        /\ DOMAIN mesh.nodes = ReferenceIndexes
        /\ \A p \in DOMAIN mesh.nodes :
              /\ RLt(R(0), NodeS(p)) /\ RLt(NodeS(p), R(1))
              /\ RLt(R(0), NodeTime(p)) /\ RLt(NodeTime(p), Q(1, 2))

\* the mesh was built by the last call
MeshJustBuilt == ~mesh.none /\ last.op \in {"build_mesh", "initialize"}

LatticeS(i, j) == RAdd(mesh.center[1], RInt(i + j, mesh.ds))
LatticeT(i, j) == RAdd(RSub(mesh.center[2], RInt(i, mesh.dt1)), RInt(j, mesh.dt2))

InFrame(s, t) ==
    /\ RLe(config.S[1], s) /\ RLe(s, config.S[2])
    /\ RLe(config.T[1], t) /\ RLe(t, config.T[2])

Margin == 2

\* C10: the symmetric index ranges never truncate the mesh: every lattice point
\* inside the rectangle has |i| <= i_r and |j| <= j_r, and
\* i_r ds >= RS, i_r dt1 >= RT, j_r ds >= RS, j_r dt2 >= RT.
C10_RangesCoverRectangle ==
    MeshJustBuilt =>
        LET i_r == mesh.i_range[2]
            j_r == mesh.j_range[2]
            RS == Half(RSub(config.S[2], config.S[1]))
            RT == Half(RSub(config.T[2], config.T[1]))
        IN  /\ mesh.i_range[1] = -i_r /\ mesh.j_range[1] = -j_r
            /\ \A i \in (-i_r - Margin) .. (i_r + Margin) :
               \A j \in (-j_r - Margin) .. (j_r + Margin) :
                  InFrame(LatticeS(i, j), LatticeT(i, j))
                     => (Abs(i) <= i_r /\ Abs(j) <= j_r)
            /\ RLe(RS, RInt(i_r, mesh.ds)) /\ RLe(RT, RInt(i_r, mesh.dt1))
            /\ RLe(RS, RInt(j_r, mesh.ds)) /\ RLe(RT, RInt(j_r, mesh.dt2))

\* C10 witness: a mesh built from h whose radius is rounded up
C10_Witness ==
    /\ MeshJustBuilt
    /\ config.keys = {"h"}
    /\ RLt(Half(RSub(config.S[2], config.S[1])), RInt(mesh.i_range[2], mesh.ds))

(***************************************************************************)
(* Characteristic.                                                         *)
(***************************************************************************)
\* the last call was get_node on a constructed characteristic
CharQueried == kind = "characteristic" /\ constructed /\ last.op = "get_node"

\* the offset the last get_node was asked for
AskedOffset == last.t[1]

StoredOrNone(k) == DictGet(char.internal_nodes, k)

\* the boundary node on the side of offset k, by the least and greatest stored offset
ClampedSide(k) ==
    IF k < SetMin(DOMAIN char.internal_nodes) THEN char.boundary_nodes[1]
    ELSE char.boundary_nodes[2]

\* C11: get_node(k) clamps instead of failing: it raises nothing, returns the
\* stored node for k in [k_left, k_right], boundary_left for every k < k_left
\* and boundary_right for every k > k_right.
C11_GetNodeClamps ==
    CharQueried =>
        /\ last.err = None
        /\ DOMAIN char.internal_nodes # {} =>
              ret.v = (IF AskedOffset \in DOMAIN char.internal_nodes
                       THEN StoredOrNone(AskedOffset) ELSE ClampedSide(AskedOffset))

C13_InternalNodesStrictlyInside ==
    (kind = "characteristic" /\ constructed) =>
        \A k \in DOMAIN char.internal_nodes :
            ContainsStrict(config.frame, char.internal_nodes[k][1],
                           char.internal_nodes[k][2])

InFrameOf(frame, s, t) ==
    /\ RLe(frame.S0, s) /\ RLe(s, frame.S1)
    /\ RLe(frame.T0, t) /\ RLe(t, frame.T1)

Corners(frame) == { << s, t >> : s \in {frame.S0, frame.S1}, t \in {frame.T0, frame.T1} }

\* which side of the line through config.center along (step, dt) a point is on:
\* positive, negative or zero (on the line)
Side(s, t) ==
    RSub(RMul(config.step, RSub(t, config.center[2])),
         RMul(config.dt, RSub(s, config.center[1])))

Directed == config.step # Zero \/ config.dt # Zero

\* the line separates two corners, so it passes through the open rectangle
CrossesInterior ==
    /\ Directed
    /\ \E p, q \in Corners(config.frame) :
          RLt(Zero, Side(p[1], p[2])) /\ RLt(Side(q[1], q[2]), Zero)

\* all four corners are strictly on one side, so the line misses the rectangle
MissesFrame ==
    /\ Directed
    /\ \/ \A p \in Corners(config.frame) : RLt(Zero, Side(p[1], p[2]))
       \/ \A p \in Corners(config.frame) : RLt(Side(p[1], p[2]), Zero)

OnEdge(frame, q) ==
    q.s \in {frame.S0, frame.S1} \/ q.t \in {frame.T0, frame.T1}

\* a clip point: on the line, on an edge of the frame, inside the closed frame
ClipPoint(q) ==
    /\ ~q.none
    /\ Side(q.s, q.t) = Zero
    /\ OnEdge(config.frame, q)
    /\ InFrameOf(config.frame, q.s, q.t)

\* C14: a characteristic whose line crosses the rectangle interior (dt = 0 and
\* step = 0 included) has exactly two boundary nodes: two distinct clip points,
\* each on an edge and inside the closed frame, the first before the second
\* along s, and along t when s does not vary.
C14_TwoBoundaryNodes ==
    (kind = "characteristic" /\ constructed /\ CrossesInterior) =>
        LET left == char.boundary_nodes[1]
            right == char.boundary_nodes[2]
        IN  /\ ClipPoint(left) /\ ClipPoint(right)
            /\ left # right
            /\ RLe(left.s, right.s)
            /\ left.s = right.s => RLt(left.t, right.t)

\* C14 witness: get_boundary_nodes answered for a crossing line with dt = 0
C14_Witness ==
    /\ kind = "characteristic" /\ constructed /\ CrossesInterior
    /\ config.dt = Zero /\ config.cls = "dtype"
    /\ last.op = "get_boundary_nodes"
    /\ ~ret.v[1].none /\ ~ret.v[2].none

\* C15: a characteristic whose line does not meet the rectangle has boundary
\* nodes (None, None) and no internal node.
C15_MissingLineHasNoNodes ==
    (kind = "characteristic" /\ MissesFrame /\ last.op # "none") =>
        /\ constructed
        /\ char.boundary_nodes = << NoneObj, NoneObj >>
        /\ DOMAIN char.internal_nodes = {}

\* C15 witness: the centre (10, 16) of the test, outside the frame
C15_Witness ==
    /\ kind = "characteristic" /\ constructed /\ MissesFrame
    /\ config.center = << R(10), R(16) >>
    /\ last.op = "get_boundary_nodes"
    /\ ret.v = << NoneObj, NoneObj >>

(***************************************************************************)
(* The families of characteristics a CharacteristicMesh builds, with       *)
(* either class of the repository as its Characteristic.                   *)
(***************************************************************************)
FamilyGeometries ==
    { [S |-> << R(0), R(s1) >>, T |-> << R(0), t1 >>, C |-> << R(c[1]), R(c[2]) >>] :
        s1 \in {1, 2}, t1 \in { Q(1, 2), R(1), R(2) },
        c \in { << 1, 1 >>, << 1, 2 >>, << 2, 1 >> } }

FamilySteps ==
    { Steps({"m"}, k, Zero) : k \in 1 .. MaxM } \cup
    { Steps({"h"}, 1, h) : h \in { Q(1, 2), R(1) } }

FamilyConfigs ==
    { [cls |-> cls, S |-> g.S, T |-> g.T, C |-> g.C, keys |-> st.keys, m |-> st.m,
       h |-> st.h] :
        cls \in {"dtype", "hyp_block"}, g \in FamilyGeometries, st \in FamilySteps }

FamilyInit ==
    /\ kind = "family"
    /\ config \in FamilyConfigs
    /\ constructed = FALSE
    /\ initialized = FALSE
    /\ mesh = NoneObj
    /\ solution = NoneObj
    /\ state = NoneObj
    /\ current_time = Zero
    /\ current_value = Zero
    /\ history = << >>
    /\ last = Call("none", None, Zero, Zero, << >>)
    /\ steps = 0
    /\ char = NoneObj
    /\ ret = NoneObj
    /\ connections = << >>

FamilyBuilt(m, built) ==
    IF built.err # None
    THEN /\ last' = Call("build_characteristics", built.err, Zero, Zero, << >>)
         /\ UNCHANGED << mesh, constructed >>
    ELSE /\ mesh' = [m EXCEPT !.nodes = << >>] @@
                    [negative_chars |-> built.negative_chars,
                     positive_chars |-> built.positive_chars]
         /\ constructed' = TRUE
         /\ last' = Call("build_characteristics", None, Zero, Zero, << >>)

\* CharacteristicMesh.__init__ up to _build_characteristics
FamilyBuild ==
    /\ kind = "family" /\ ~constructed /\ last.op = "none"
    /\ FamilyBuilt(CharacteristicMesh(config),
                   BuildCharacteristics(config.cls, CharacteristicMesh(config)))
    /\ UNCHANGED << kind, config, initialized, solution, state, current_time,
                    current_value, history, steps, char, ret, connections >>

FamilyNext == FamilyBuild

FamilySpec == FamilyInit /\ [][FamilyNext]_vars

(***************************************************************************)
(* C16 - C19: initial values, the all-zero problem, raising callables and  *)
(* the function_type of a FunctionBlock.                                   *)
(***************************************************************************)
HypInitializeReturns ==
    kind = "hyperbolic" /\ last'.op = "initialize" /\ last'.err = None

\* the value the initial slice is to hold at abscissa s
InitialPair(s) == << CallInitial(config.initial_x, s), CallInitial(config.initial_y, s) >>

Filled(sol, m) ==
    /\ ~sol.none
    /\ DOMAIN sol.d = DOMAIN m.nodes
    /\ \A p \in DOMAIN m.nodes :
          sol.d[p] = IF m.nodes[p][2] = m.frame.T0
                     THEN InitialPair(m.nodes[p][1])
                     ELSE << Zero, Zero >>

\* C16: after initialize on a hyperbolic block the solution has an entry for
\* every mesh node, (initial_x(s), initial_y(s)) on the slice t = T0 and (0, 0)
\* elsewhere, the block is initialized, and a step made on it is accepted.
C16_InitializeFillsEveryNode ==
    [][/\ HypInitializeReturns => (initialized' /\ Filled(solution', mesh'))
       /\ (kind = "hyperbolic" /\ initialized /\ steps' = steps + 1)
            => last'.err = None]_vars

AllZero ==
    /\ kind = "hyperbolic"
    /\ \A c \in {"B11", "B12", "B21", "B22", "F1", "F2"} : config[c] = "zero"
    /\ config.left_boundary = "zero" /\ config.right_boundary = "zero"
    /\ config.initial_x = "zero" /\ config.initial_y = "zero"

\* C17: with zero coefficients, zero forcing, zero boundary functions and zero
\* initial functions, every node of the solution holds (0, 0) after initialize
\* and after every step that follows.
C17_AllZeroStaysZero ==
    (AllZero /\ ~solution.none) =>
        \A p \in DOMAIN solution.d : solution.d[p] = << Zero, Zero >>

\* two steps made, the second solving an edge node and a node inside
C17_Witness ==
    /\ AllZero /\ HypStepped /\ steps = 2
    /\ \E k \in 1 .. Len(last.order) : NodeS(last.order[k]) = mesh.frame.S0
    /\ \E k \in 1 .. Len(last.order) :
          LET preceding == GetPrecedingNodes(mesh, last.order[k][1], last.order[k][2])
          IN  ~preceding.left.none /\ ~preceding.right.none

\* a step made on an initialized block that holds a solution
HypStepTaken ==
    kind = "hyperbolic" /\ initialized /\ ~solution.none /\ steps' = steps + 1

Inner(p) ==
    LET preceding == GetPrecedingNodes(mesh, p[1], p[2])
    IN  ~preceding.left.none /\ ~preceding.right.none

\* the callables a step from t over dt comes to call: a boundary function at an
\* edge node of time t and at every edge node it solves, the coefficients and
\* forcings at every inner node it solves
Invoked(t, dt) ==
    LET solved == { p \in DOMAIN mesh.nodes : RLe(NodeTime(p), RAdd(t, dt)) }
        edge(s) == { p \in DOMAIN mesh.nodes :
                       /\ NodeS(p) = s
                       /\ NodeTime(p) = t \/ (p \in solved /\ ~Inner(p)) }
    IN  (IF edge(mesh.frame.S0) # {} THEN {config.left_boundary} ELSE {})
        \cup (IF edge(mesh.frame.S1) # {} THEN {config.right_boundary} ELSE {})
        \cup (IF \E p \in solved : Inner(p)
               THEN { config[c] : c \in {"B11", "B12", "B21", "B22", "F1", "F2"} }
               ELSE {})

\* C18: when a coefficient, forcing or boundary callable raises while step runs,
\* step ends with that very exception: it is not caught or replaced, no value
\* stands in for the one the callable did not return, and a step none of whose
\* callables raises ends without one.
C18_CallableErrorPropagates ==
    [][HypStepTaken =>
         LET raised == { Raises(f) : f \in Invoked(last'.t, last'.dt) } \ {None}
         IN  /\ raised # {} => last'.err \in raised
             /\ raised = {} => last'.err = None
             /\ last'.err # None =>
                   /\ DOMAIN solution.d \subseteq DOMAIN solution'.d
                   /\ \A p \in DOMAIN solution'.d :
                         (p \notin DOMAIN solution.d \/ solution'.d[p] # solution.d[p]) =>
                             /\ NodeTime(p) = last'.t
                             /\ NodeS(p) \in {mesh.frame.S0, mesh.frame.S1}]_vars

\* a step ended by the KeyError its coefficient B12 raised
C18_Witness ==
    /\ kind = "hyperbolic" /\ config.B12 = "raiseK"
    /\ last.op = "step" /\ last.err = "KeyError"

UnknownFunctionType ==
    kind = "function" /\ config.function_type \notin {"constant", "time", "time_inputs"}

\* C19: constructing a FunctionBlock with a function_type other than constant,
\* time or time_inputs fails with ValueError, so that no such block is ever
\* constructed, initialized or stepped.
C19_UnknownTypeFailsAtConstruction ==
    UnknownFunctionType =>
        /\ ~constructed /\ ~initialized
        /\ last.op \in {"none", "construct"}
        /\ last.op = "construct" => last.err = "ValueError"

(***************************************************************************)
(* C20: the readiness gate.                                                *)
(***************************************************************************)
\* the connection the call just made was about
Asked == last'.order[1]

Polled == last'.op \in {"conn_is_ready", "is_ready"}

\* C20: a connection is ready at t iff t <= its ready-until time, which is 0
\* when the connection is made and changes only to the argument of a mark_ready
\* made on it; a block is ready at t iff all its connections are (always, when
\* it has none); and a poll changes nothing of the connections or of the block.
C20_ReadinessIsPurePoll ==
    [][kind = "block" =>
         /\ last'.op = "connect" => connections' = Append(connections, Zero)
         /\ last'.op = "mark_ready" =>
               /\ Len(connections') = Len(connections)
               /\ \A c \in 1 .. Len(connections) :
                     connections'[c] = IF c = Asked THEN last'.t ELSE connections[c]
         /\ last'.op = "conn_is_ready" =>
               ret'.v = (last'.t[1] * connections[Asked][2]
                           <= connections[Asked][1] * last'.t[2])
         /\ last'.op = "is_ready" =>
               ret'.v = (\A c \in 1 .. Len(connections) :
                           last'.t[1] * connections[c][2]
                             <= connections[c][1] * last'.t[2])
         /\ Polled => UNCHANGED << connections, constructed, fields, config >>]_vars

\* a block polled at a time that one of its two connections covers and the
\* other, marked since it was made, does not
C20_Witness ==
    /\ kind = "block" /\ last.op = "is_ready" /\ Len(connections) = 2
    /\ ret = Returned(FALSE)
    /\ \E c \in 1 .. 2 : connections[c] # Zero /\ ConnIsReady(last.t, connections[c])

(***************************************************************************)
(* C21: inputs that a connection does not yield.                           *)
(***************************************************************************)
\* a step made on an initialized lumped block that has connections
ConnectedStep ==
    /\ kind \in {"ode", "function"} /\ ~UnknownFunctionType
    /\ initialized /\ steps' = steps + 1
    /\ Len(connections) > 0

\* C21: a connection whose get_value yields None contributes no input: the step
\* of the consuming block returns, and computes what it computes with that
\* input absent.
C21_AbsentInputIsOmitted ==
    [][ConnectedStep =>
         /\ last'.err = None
         /\ kind = "ode" =>
               state'.v = RungeKutta(config.rhs_function, last'.t, state.v, last'.dt, << >>)
         /\ kind = "function" =>
               current_value' = ComputeValue(config, last'.t, {}).v]_vars

\* an ODE block whose right-hand side counts its inputs, stepped over a
\* non-zero dt with two connections made to it
C21_Witness ==
    /\ kind = "ode" /\ config.rhs_function = "cnt"
    /\ last.op = "step" /\ last.err = None /\ last.dt # Zero
    /\ Len(connections) = 2

(***************************************************************************)
(* C22: the values a node of a pass is solved from.                        *)
(***************************************************************************)
\* the value of node q that a pass building its solution incrementally hands
\* to the k-th node it visits: the one computed in this pass when q was
\* visited before, the one held before the pass otherwise
ValueInPass(q, k) ==
    IF \E l \in 1 .. (k - 1) : last'.order[l] = q
    THEN solution'.d[q]
    ELSE SolGet(ApplyBoundaryConditions(solution.d, mesh, config, last'.t), q)

\* C22: in a pass, a node with both predecessors is solved from the values its
\* predecessors have in the solution under construction: a predecessor solved
\* earlier in the pass contributes the value computed in this pass.
C22_PassReadsOwnValues ==
    [][HypStepReturns =>
         \A k \in 1 .. Len(last'.order) :
            LET p == last'.order[k]
                l == << p[1] - 1, p[2] >>
                r == << p[1], p[2] - 1 >>
            IN  Inner(p) =>
                  solution'.d[p] =
                     CenterSolve(config, NodeS(p), NodeTime(p),
                                 NodeS(l), NodeTime(l),
                                 ValueInPass(l, k)[1], ValueInPass(l, k)[2],
                                 RSub(NodeTime(p), NodeTime(l)),
                                 NodeS(r), NodeTime(r),
                                 ValueInPass(r, k)[1], ValueInPass(r, k)[2],
                                 RSub(NodeTime(p), NodeTime(r)))]_vars

(***************************************************************************)
(* C23: the initial slice under stepping.                                  *)
(***************************************************************************)
\* C23: after initialize and any steps, a node of the slice t = T0 that is in
\* the solution holds (initial_x(s), initial_y(s)), but for the first unknown
\* of an S1-edge node when right_boundary is configured and the second unknown
\* of an S0-edge node when left_boundary is.
C23_InitialSliceIsKept ==
    (kind = "hyperbolic" /\ initialized /\ ~solution.none) =>
        \A p \in DOMAIN solution.d :
            NodeTime(p) = mesh.frame.T0 =>
                /\ \/ solution.d[p][1] = InitialPair(NodeS(p))[1]
                   \/ config.right_boundary # None /\ NodeS(p) = mesh.frame.S1
                /\ \/ solution.d[p][2] = InitialPair(NodeS(p))[2]
                   \/ config.left_boundary # None /\ NodeS(p) = mesh.frame.S0

(***************************************************************************)
(* C24: the range of the internal nodes.                                   *)
(***************************************************************************)
\* the offsets whose lattice point lies in the rectangle
LatticeInFrame ==
    { k \in (-MaxLattice) .. MaxLattice :
        InFrameOf(config.frame,
                  CharNode(k, config.center, config.dt, config.step)[1],
                  CharNode(k, config.center, config.dt, config.step)[2]) }

\* C24: whatever the signs of step and dt, the keys of internal_nodes are an
\* interval of integers that holds every k whose point
\* (s0 + k * step, t0 + k * dt) lies in the rectangle.
C24_InternalRangeIsMaximal ==
    (kind = "characteristic" /\ constructed) =>
        /\ \A a, b \in DOMAIN char.internal_nodes :
              \A k \in a .. b : k \in DOMAIN char.internal_nodes
        /\ LatticeInFrame \subseteq DOMAIN char.internal_nodes

(***************************************************************************)
(* C25: the tolerance of the edge-intersection test.                       *)
(***************************************************************************)
\* the four intersections with the edge lines, as computed
EdgeCandidates ==
    Candidates(config.cls, config.center, config.dt, config.step, config.frame,
               config.roundoff)

\* an intersection the tolerant test of its edge lets through although its
\* computed transverse coordinate lies outside the rectangle, by less than EPS
OutsideWithinEps(q) ==
    /\ ~q.none
    /\ ~ContainsComputed(config.frame, q)

\* C25: an intersection with an edge whose transverse coordinate lies outside
\* the rectangle by less than EPS is accepted: it is a boundary node of the
\* Characteristic, being the intersection of least or greatest s.
C25_NearMissIsAccepted ==
    (kind = "characteristic" /\ constructed /\ config.cls = "hyp_block") =>
        \A n \in 1 .. 4 :
            OutsideWithinEps(EdgeCandidates[n]) =>
                \E b \in 1 .. 2 :
                    char.boundary_nodes[b] =
                        Point(EdgeCandidates[n].s, EdgeCandidates[n].t)

(***************************************************************************)
(* C26: a family is built whatever its members are.                        *)
(***************************************************************************)
\* the mesh whose families are built
FamilyMesh == CharacteristicMesh(config)

\* the offsets of the lattice points of the line through center that lie in
\* the rectangle
LatticeInside(center, dt) ==
    { k \in (-MaxLattice) .. MaxLattice :
        Contains(FamilyMesh.frame, CharNode(k, center, dt, FamilyMesh.ds)[1],
                                   CharNode(k, center, dt, FamilyMesh.ds)[2]) }

NegativeCenter(j) ==
    << RAdd(FamilyMesh.center[1], RInt(j, FamilyMesh.ds)),
       RAdd(FamilyMesh.center[2], RInt(j, FamilyMesh.dt2)) >>

PositiveCenter(i) ==
    << RAdd(FamilyMesh.center[1], RInt(i, FamilyMesh.ds)),
       RSub(FamilyMesh.center[2], RInt(i, FamilyMesh.dt1)) >>

\* C26: building the families returns without an exception, and a member is
\* in its family iff its line has a lattice point in the rectangle; a member
\* whose line clips the rectangle without one is left out.
C26_FamilyBuildNeverFails ==
    (kind = "family" /\ last.op = "build_characteristics") =>
        /\ last.err = None
        /\ constructed
        /\ \A j \in FamilyMesh.j_range[1] .. FamilyMesh.j_range[2] :
              j \in DOMAIN mesh.negative_chars
                  <=> LatticeInside(NegativeCenter(j), RNeg(FamilyMesh.dt1)) # {}
        /\ \A i \in FamilyMesh.i_range[1] .. FamilyMesh.i_range[2] :
              i \in DOMAIN mesh.positive_chars
                  <=> LatticeInside(PositiveCenter(i), FamilyMesh.dt2) # {}

(***************************************************************************)
(* C27: the nodes of the S0 and S1 edges.                                  *)
(***************************************************************************)
\* the x or y (k = 1 or 2) that node q has before or after this step
HeldOrSolved(q, k) ==
    { SolGet(ApplyBoundaryConditions(solution.d, mesh, config, last'.t), q)[k] } \cup
    { solution'.d[r][k] : r \in {q} \cap DOMAIN solution'.d }

\* C27: a node solved by a step that lacks a predecessor and lies on the S0 edge
\* gets y = left_boundary(its time) and the x of its right predecessor
\* (i, j-1), which the mesh holds; one on the S1 edge gets
\* x = right_boundary(its time) and the y of its left predecessor (i-1, j).
C27_EdgeNodeCarriesPredecessor ==
    [][HypStepReturns =>
         \A p \in { last'.order[k] : k \in 1 .. Len(last'.order) } :
            LET l == << p[1] - 1, p[2] >>
                r == << p[1], p[2] - 1 >>
            IN  ~Inner(p) =>
                  /\ NodeS(p) = mesh.frame.S0 =>
                        /\ config.left_boundary # None =>
                              solution'.d[p][2] =
                                  CallBoundary(config.left_boundary, NodeTime(p))
                        /\ r \in DOMAIN mesh.nodes
                        /\ solution'.d[p][1] \in HeldOrSolved(r, 1)
                  /\ (NodeS(p) = mesh.frame.S1 /\ NodeS(p) # mesh.frame.S0) =>
                        /\ config.right_boundary # None =>
                              solution'.d[p][1] =
                                  CallBoundary(config.right_boundary, NodeTime(p))
                        /\ l \in DOMAIN mesh.nodes
                        /\ solution'.d[p][2] \in HeldOrSolved(l, 2)]_vars

(***************************************************************************)
(* C28: the nodes without predecessors off the edges.                      *)
(***************************************************************************)
\* the lattice neighbours of p in the mesh
Neighbours(p) ==
    { q \in ((p[1] - 1) .. (p[1] + 1)) \X ((p[2] - 1) .. (p[2] + 1)) :
        q # p /\ q \in DOMAIN mesh.nodes }

\* neither (i-1, j) nor (i, j-1) is in the mesh, and p is on no edge
Orphan(p) ==
    /\ GetPrecedingNodes(mesh, p[1], p[2]).left.none
    /\ GetPrecedingNodes(mesh, p[1], p[2]).right.none
    /\ NodeS(p) # mesh.frame.S0
    /\ NodeS(p) # mesh.frame.S1

\* the component-wise average of the values d holds at the nodes qs, (0, 0)
\* when there are none
Average(d, qs) ==
    IF qs = {} THEN << Zero, Zero >>
    ELSE << RDiv(RSum(d, qs, 1), R(Cardinality(qs))),
            RDiv(RSum(d, qs, 2), R(Cardinality(qs))) >>

\* C28: a node solved by a step that has neither predecessor and is on no edge
\* gets the average of the values of its neighbours solved before it in the
\* pass, (0, 0) when none is; the step returns.
C28_OrphanAveragesSolvedNeighbours ==
    [][(HypStepTaken /\ \E p \in DOMAIN mesh.nodes : Orphan(p)) =>
         /\ last'.err = None
         /\ \A k \in 1 .. Len(last'.order) :
               Orphan(last'.order[k]) =>
                  solution'.d[last'.order[k]] =
                      Average(solution'.d,
                              Neighbours(last'.order[k]) \cap
                                  { last'.order[l] : l \in 1 .. (k - 1) })]_vars

(***************************************************************************)
(* C29: a singular system at a node with both predecessors.                *)
(***************************************************************************)
\* the matrix A of _center_solve at node p is singular
SingularAt(p) ==
    LET hl == RSub(NodeTime(p), NodeTime(<< p[1] - 1, p[2] >>))
        hr == RSub(NodeTime(p), NodeTime(<< p[1], p[2] - 1 >>))
        a11 == RSub(R(1), RMul(Half(hr), CallCoef(config.B11, NodeS(p), NodeTime(p))))
        a12 == RNeg(RMul(Half(hr), CallCoef(config.B12, NodeS(p), NodeTime(p))))
        a21 == RNeg(RMul(Half(hl), CallCoef(config.B21, NodeS(p), NodeTime(p))))
        a22 == RSub(R(1), RMul(Half(hl), CallCoef(config.B22, NodeS(p), NodeTime(p))))
    IN  RMul(a11, a22) = RMul(a12, a21)

\* the values (xl, yl) and (xr, yr) read for the predecessors of p by this step
ReadLeft(p) ==
    SolGet(ApplyBoundaryConditions(solution.d, mesh, config, last'.t), << p[1] - 1, p[2] >>)

ReadRight(p) ==
    SolGet(ApplyBoundaryConditions(solution.d, mesh, config, last'.t), << p[1], p[2] - 1 >>)

\* C29: a step that solves a node with both predecessors whose matrix A is
\* singular returns, and the node holds ((xl + xr) / 2, (yl + yr) / 2).
C29_SingularFallsBackToMidpoint ==
    [][HypStepTaken =>
         \A p \in DOMAIN mesh.nodes :
            (~Skipped(mesh, p, last'.t, last'.dt) /\ Inner(p) /\ SingularAt(p)) =>
                /\ last'.err = None
                /\ solution'.d[p] =
                       << Half(RAdd(ReadLeft(p)[1], ReadRight(p)[1])),
                          Half(RAdd(ReadLeft(p)[2], ReadRight(p)[2])) >>]_vars

\* a step has solved a node with both predecessors whose matrix is singular,
\* from predecessors that held different values
C29_Witness ==
    /\ HypStepped
    /\ \E k \in 1 .. Len(last.order) :
          /\ Inner(last.order[k])
          /\ SingularAt(last.order[k])
          /\ solution.d[last.order[k]] # << Zero, Zero >>

(***************************************************************************)
(* C30: the values a FunctionBlock records.                                *)
(***************************************************************************)
\* the block's function at time t
FunctionAt(t) == ComputeValue(config, t, {}).v

\* C30: after initialize at t0 and before any step, current_value and the first
\* history entry hold the function's value at t0 (the constant of a constant
\* block); every history entry (tau, v) has v = the function's value at tau.
C30_HistoryHoldsFunctionValues ==
    (kind = "function" /\ ~UnknownFunctionType /\ initialized) =>
        /\ (last.op = "initialize" /\ last.err = None /\ Len(history) = 1) =>
              /\ current_value = FunctionAt(last.t)
              /\ history[1] = << last.t, FunctionAt(last.t) >>
        /\ \A n \in 1 .. Len(history) : history[n][2] = FunctionAt(history[n][1])

=============================================================================
